---- MODULE Spec2Model ----
(***************************************************************************)
(* A model of the CosmWasm contract in src/src/contract.rs: a counter      *)
(* record kept in storage, the entry points instantiate / execute / query  *)
(* / reply, and the host that runs the submessage emitted by DeploySlave   *)
(* and calls reply with its outcome.                                       *)
(***************************************************************************)
EXTENDS Integers, Sequences, FiniteSets

(***************************************************************************)
(* Bounds of the model.                                                    *)
(***************************************************************************)
\* Increment calls admitted in one run (the counter itself is unbounded).
MaxIncrements == 2
\* DeploySlave calls admitted in one run.
MaxRequests == 2
\* Longest event list of a reply, and longest attribute list of an event.
MaxEvents == 2
MaxAttrs == 2

(***************************************************************************)
(* Program constants.                                                      *)
(***************************************************************************)
INSTANTIATE_REPLY_ID == 1
CODE_ID == 9552
CONTRACT_NAME == "crates.io:test-empty-master"
\* env!("CARGO_PKG_VERSION"): fixed at build time, its value is not in src/.
CONTRACT_VERSION == "CARGO_PKG_VERSION"
\* The counter and the DeploySlave parameter are i32.
I32_MAX == 2147483647
I32_MIN == -I32_MAX - 1

\* Option::None, and the absence of a stored item.
None == [none |-> TRUE]

(***************************************************************************)
(* Input domains.                                                          *)
(***************************************************************************)
\* Callers of execute: mock_info("creator"), mock_info("anyone").
Addrs == {"creator", "anyone"}
\* The caller of instantiate, who becomes the owner: mock_info("creator").
Owners == {"creator"}
\* env.contract.address (mock_env's contract address).
ContractAddr == "cosmos2contract"
\* Seeds of instantiate: the test's 17 and both ends of i32.
Seeds == {I32_MIN, 17, I32_MAX}
\* Counts handed to DeploySlave.
ChildCounts == {I32_MIN, 5}

(***************************************************************************)
(* i32::to_string / serde_json_wasm's integer formatting: decimal digits,  *)
(* a leading '-' for negative numbers.  Negative numbers are formatted     *)
(* without negating them, since -I32_MIN is not an i32.                    *)
(***************************************************************************)
Digit(d) ==
    CASE d = 0 -> "0" [] d = 1 -> "1" [] d = 2 -> "2" [] d = 3 -> "3"
      [] d = 4 -> "4" [] d = 5 -> "5" [] d = 6 -> "6" [] d = 7 -> "7"
      [] d = 8 -> "8" [] d = 9 -> "9"

RECURSIVE NatDigits(_)
NatDigits(n) ==
    IF n < 10 THEN Digit(n) ELSE NatDigits(n \div 10) \o Digit(n % 10)

RECURSIVE NegDigits(_)
NegDigits(n) ==
    LET d == (10 - (n % 10)) % 10
        q == (n + d) \div 10
    IN  IF q = 0 THEN Digit(d) ELSE NegDigits(q) \o Digit(d)

to_string(n) == IF n < 0 THEN "-" \o NegDigits(n) ELSE NatDigits(n)

\* to_binary of a struct whose only field is `count`
\* (CountResponse, SlaveInstantiateMsg): the JSON object {"count":<n>}.
to_binary(value) == "{\"count\":" \o to_string(value.count) \o "}"

(***************************************************************************)
(* Results of an entry point.                                              *)
(***************************************************************************)
Attr(k, v) == [key |-> k, value |-> v]

\* Ok(Response::new()...): attributes and submessages in the order added.
OkResponse(attrs, msgs) ==
    [result |-> "Ok", attributes |-> attrs, messages |-> msgs]

\* Ok(Binary) of query.
OkBinary(bin) == [result |-> "Ok", data |-> bin]

\* StdError::generic_err(msg).
generic_err(m) == [result |-> "Err", error |-> [kind |-> "GenericErr", msg |-> m]]

\* StdError::NotFound, what STATE.load and STATE.update return on an empty slot.
not_found == [result |-> "Err", error |-> [kind |-> "NotFound", msg |-> "State"]]

\* An arithmetic-overflow panic: the invocation traps and nothing is written.
Panicked == [result |-> "Panic"]

VARIABLES
    STATE_item,     \* the stored State {count, owner}, or None
    contract_info,  \* cw2's stored {contract, version}, or None
    call,           \* the last invocation: entry point, input and result
    before,         \* the stored State as it was before the last invocation
    nIncr,          \* Increment calls made so far
    issued,         \* DeploySlave calls made so far: requests are 1..issued
    pending,        \* submessages handed to the host and not yet executed
    inbox,          \* replies the host has built and not yet delivered
    delivered       \* per request, how many times reply was invoked for it

vars == <<STATE_item, contract_info, call, before, nIncr, issued, pending, inbox,
          delivered>>

NoCall == [entry |-> "none", msg |-> None]

(***************************************************************************)
(* instantiate: stores State {count: msg.count, owner: info.sender} and    *)
(* the contract version.                                                   *)
(***************************************************************************)
\* Variant: STATE.save is left out.
instantiate_forgets_save(info, msg) ==
    [ state |-> None,
      version |-> [contract |-> CONTRACT_NAME, version |-> CONTRACT_VERSION],
      res |-> OkResponse(<<Attr("method", "instantiate"),
                           Attr("owner", info.sender),
                           Attr("count", to_string(msg.count))>>, <<>>) ]

\* Variant: the State starts at count 0 whatever the seed.
instantiate_default_count(info, msg) ==
    [ state |-> [count |-> 0, owner |-> info.sender],
      version |-> [contract |-> CONTRACT_NAME, version |-> CONTRACT_VERSION],
      res |-> OkResponse(<<Attr("method", "instantiate"),
                           Attr("owner", info.sender),
                           Attr("count", to_string(msg.count))>>, <<>>) ]

\* The code.
instantiate(info, msg) ==
    [ state |-> [count |-> msg.count, owner |-> info.sender],
      version |-> [contract |-> CONTRACT_NAME, version |-> CONTRACT_VERSION],
      res |-> OkResponse(<<Attr("method", "instantiate"),
                           Attr("owner", info.sender),
                           Attr("count", to_string(msg.count))>>, <<>>) ]

(***************************************************************************)
(* try_increment: STATE.update(|s| s.count += 1).  `count += 1` on i32 is  *)
(* an unchecked addition: at i32::MAX a build with overflow checks panics  *)
(* and a build without them wraps to i32::MIN.  The operator gives the set *)
(* of outcomes, each the new stored State and the result.                  *)
(***************************************************************************)
try_increment(state) ==
    IF state = None
    THEN {[state |-> state, res |-> not_found]}
    ELSE IF state.count = I32_MAX
    THEN {[state |-> state, res |-> Panicked],
          [state |-> [state EXCEPT !.count = I32_MIN],
           res |-> OkResponse(<<Attr("method", "try_increment")>>, <<>>)]}
    ELSE {[state |-> [state EXCEPT !.count = @ + 1],
           res |-> OkResponse(<<Attr("method", "try_increment")>>, <<>>)]}

(***************************************************************************)
(* query / query_count: to_binary(CountResponse {count: state.count}).     *)
(***************************************************************************)
\* Variant: an absent State reads as count 0 (may_load and a default).
query_count_defaults(state) ==
    IF state = None
    THEN OkBinary(to_binary([count |-> 0]))
    ELSE OkBinary(to_binary([count |-> state.count]))

\* The code.
query_count(state) ==
    IF state = None
    THEN not_found
    ELSE OkBinary(to_binary([count |-> state.count]))

\* What query leaves in storage: it holds Deps, which cannot write.
\* Variant: the query counts itself, as an execute would.
storage_after_query_counts(state) ==
    IF state = None \/ state.count = I32_MAX
    THEN state
    ELSE [state EXCEPT !.count = @ + 1]

\* The code.
storage_after_query(state) == state

(***************************************************************************)
(* deploy_slave: a response with one submessage, SubMsg::reply_always of   *)
(* WasmMsg::Instantiate, tagged INSTANTIATE_REPLY_ID.  It reads and writes *)
(* no storage.                                                             *)
(***************************************************************************)
WasmInstantiate(admin, count) ==
    [ admin |-> admin,
      code_id |-> CODE_ID,
      msg |-> to_binary([count |-> count]),
      funds |-> <<>>,
      label |-> "DeployedSlave" ]

SubMsg(msg, id, reply_on) == [msg |-> msg, id |-> id, reply_on |-> reply_on]

\* Variant: the caller is made admin of the child.
deploy_slave_admin_is_sender(env, info, count) ==
    OkResponse(<<Attr("method", "DeployedSlave")>>,
               <<SubMsg(WasmInstantiate(info.sender, count),
                        INSTANTIATE_REPLY_ID, "Always")>>)

\* Variant: SubMsg::reply_on_success in place of reply_always.
deploy_slave_reply_on_success(env, info, count) ==
    OkResponse(<<Attr("method", "DeployedSlave")>>,
               <<SubMsg(WasmInstantiate(env.contract.address, count),
                        INSTANTIATE_REPLY_ID, "Success")>>)

\* The code.
deploy_slave(env, info, count) ==
    OkResponse(<<Attr("method", "DeployedSlave")>>,
               <<SubMsg(WasmInstantiate(env.contract.address, count),
                        INSTANTIATE_REPLY_ID, "Always")>>)

\* What deploy_slave leaves in storage: it holds DepsMut and never uses it.
\* Variant: the request is counted in the stored State.
storage_after_deploy_slave_counts(state) ==
    IF state = None \/ state.count = I32_MAX
    THEN state
    ELSE [state EXCEPT !.count = @ + 1]

\* The code.
storage_after_deploy_slave(state) == state

(***************************************************************************)
(* The reply message: Reply {id, result}, result either                    *)
(* SubMsgResult::Ok(SubMsgResponse {events}) or SubMsgResult::Err(String). *)
(***************************************************************************)
Event(ty, attributes) == [ty |-> ty, attributes |-> attributes]
SubMsgOk(events) == [tag |-> "Ok", events |-> events]
SubMsgErr(err) == [tag |-> "Err", err |-> err]
Reply(id, result) == [id |-> id, result |-> result]

\* Variant: the first event of any type that has the address attribute.
RECURSIVE find_any_event_with_address(_)
find_any_event_with_address(events) ==
    IF events = <<>> THEN None
    ELSE IF \E i \in 1..Len(Head(events).attributes) :
               Head(events).attributes[i].key = "_contract_address"
    THEN Head(events)
    ELSE find_any_event_with_address(Tail(events))

\* Variant: the first "instantiate" event that has the address attribute.
RECURSIVE find_instantiate_event_with_address(_)
find_instantiate_event_with_address(events) ==
    IF events = <<>> THEN None
    ELSE IF /\ Head(events).ty = "instantiate"
            /\ \E i \in 1..Len(Head(events).attributes) :
                  Head(events).attributes[i].key = "_contract_address"
    THEN Head(events)
    ELSE find_instantiate_event_with_address(Tail(events))

\* The code: result.events.iter().find(|event| event.ty == "instantiate").
RECURSIVE find_instantiate_event(_)
find_instantiate_event(events) ==
    IF events = <<>> THEN None
    ELSE IF Head(events).ty = "instantiate" THEN Head(events)
    ELSE find_instantiate_event(Tail(events))

\* Variant: the last attribute with the key, not the first.
RECURSIVE find_last_contract_address(_)
find_last_contract_address(attributes) ==
    IF attributes = <<>> THEN None
    ELSE IF attributes[Len(attributes)].key = "_contract_address"
    THEN attributes[Len(attributes)]
    ELSE find_last_contract_address(SubSeq(attributes, 1, Len(attributes) - 1))

\* The code:
\* event.attributes.iter().find(|attr| attr.key == "_contract_address").
RECURSIVE find_contract_address(_)
find_contract_address(attributes) ==
    IF attributes = <<>> THEN None
    ELSE IF Head(attributes).key = "_contract_address" THEN Head(attributes)
    ELSE find_contract_address(Tail(attributes))

\* The two errors of a malformed success.  The source's messages quote the
\* names with backquotes, which a TLA+ string cannot hold: ' stands for them.
missing_event == generic_err("Cannot find 'instantiate' event")
\* Variant: the attribute is unwrapped, and its absence traps.
missing_attribute_unwraps == Panicked

missing_attribute == generic_err("Cannot find '_contract_address' attribute")

\* The arm SubMsgResult::Err(err) of handle_instantiate_reply.
\* Variant: the host's message is left out of the error.
submsg_error_without_message(err) == generic_err("SubMsg error")

\* The code.
submsg_error(err) == generic_err("SubMsg error: " \o err)

\* The response of a successful extraction.
\* Variant: the address is the only attribute.
creation_response_address_only(contract_address) ==
    OkResponse(<<Attr("contract_address", contract_address)>>, <<>>)

\* Variant: the handler asks for the child again once it has its address.
creation_response_redeploys(contract_address) ==
    OkResponse(<<Attr("method", "handle_instantiate_reply"),
                 Attr("contract_address", contract_address)>>,
               <<SubMsg(WasmInstantiate(contract_address, 0),
                        INSTANTIATE_REPLY_ID, "Always")>>)

\* The code.
creation_response(contract_address) ==
    OkResponse(<<Attr("method", "handle_instantiate_reply"),
                 Attr("contract_address", contract_address)>>, <<>>)

handle_instantiate_reply(msg) ==
    IF msg.result.tag = "Err"
    THEN submsg_error(msg.result.err)
    ELSE LET event == find_instantiate_event(msg.result.events)
         IN  IF event = None
             THEN missing_event
             ELSE LET attr == find_contract_address(event.attributes)
                  IN  IF attr = None
                      THEN missing_attribute
                      ELSE creation_response(attr.value)

\* Variant: every reply goes to the handler, whatever its id.
reply_ignores_id(msg) == handle_instantiate_reply(msg)

\* The code.
reply(msg) ==
    IF msg.id = INSTANTIATE_REPLY_ID
    THEN handle_instantiate_reply(msg)
    ELSE generic_err("Unknown reply id: " \o to_string(msg.id))

\* What reply leaves in storage: deps serves deps.api.debug only.
\* Variant: a reply that fails drops the stored State.
storage_after_reply_drops_on_error(state, msg) ==
    IF reply(msg).result = "Ok" THEN state ELSE None

\* Variant: a reply that succeeds counts the child in the stored State.
storage_after_reply_counts(state, msg) ==
    IF reply(msg).result = "Ok" /\ state # None /\ state.count < I32_MAX
    THEN [state EXCEPT !.count = @ + 1]
    ELSE state

\* The code.
storage_after_reply(state, msg) == state

(***************************************************************************)
(* The host.  It runs a submessage, and calls reply with the outcome when  *)
(* the submessage's reply_on asks for it: Always on both outcomes, Success *)
(* and Error on their own outcome only.                                    *)
(***************************************************************************)
WantsReply(reply_on, result) ==
    \/ reply_on = "Always"
    \/ reply_on = "Success" /\ result.tag = "Ok"
    \/ reply_on = "Error" /\ result.tag = "Err"

\* Outcomes the host reports in a run of the whole contract, one for each
\* branch of handle_instantiate_reply.
HostOutcomes ==
    { SubMsgOk(<<Event("instantiate", <<Attr("_contract_address", "addr123"),
                                         Attr("code_id", "9552")>>)>>),
      SubMsgOk(<<Event("instantiate", <<Attr("code_id", "9552")>>)>>),
      SubMsgOk(<<>>),
      SubMsgErr("insufficient funds") }

\* Every outcome of a reply within the bounds.
SeqsUpTo(S, n) == UNION {[1..k -> S] : k \in 0..n}
AttrPairs ==
    { Attr("_contract_address", "addr123"),
      Attr("_contract_address", "addr456"),
      Attr("code_id", "9552") }
Events ==
    {Event(ty, attrs) : ty \in {"instantiate", "wasm"},
                        attrs \in SeqsUpTo(AttrPairs, MaxAttrs)}
Outcomes ==
    {SubMsgOk(events) : events \in SeqsUpTo(Events, MaxEvents)}
      \cup {SubMsgErr(err) : err \in {"insufficient funds", "out of gas"}}
\* The reserved reply id, and one the contract never issues.
ReplyIds == {INSTANTIATE_REPLY_ID, INSTANTIATE_REPLY_ID + 1}

Init ==
    /\ STATE_item = None
    /\ contract_info = None
    /\ call = NoCall
    /\ before = [STATE_item |-> None]
    /\ nIncr = 0
    /\ issued = 0
    /\ pending = {}
    /\ inbox = {}
    /\ delivered = [r \in 1..MaxRequests |-> 0]

\* What every invocation of an entry point records.
Invoke(entry, info, msg, res) ==
    /\ before' = [STATE_item |-> STATE_item]
    /\ call' = [entry |-> entry, info |-> info, msg |-> msg, res |-> res]

\* The submessages of a result: those of an Ok(Response), none otherwise.
Submessages(res) ==
    IF res.result = "Ok" /\ "messages" \in DOMAIN res THEN res.messages ELSE <<>>

\* The host takes the submessages of a result; each is a new request.
Dispatch(res) ==
    /\ issued' = issued + Len(Submessages(res))
    /\ pending' = pending \cup
         {[req |-> issued + i, submsg |-> Submessages(res)[i]] :
             i \in 1..Len(Submessages(res))}

\* The host instantiates the contract once.
Instantiate ==
    /\ contract_info = None
    /\ \E sender \in Owners, count \in Seeds :
         LET info == [sender |-> sender]
             msg == [count |-> count]
             out == instantiate(info, msg)
         IN  /\ STATE_item' = out.state
             /\ contract_info' = out.version
             /\ Invoke("instantiate", info, msg, out.res)
             /\ Dispatch(out.res)
    /\ UNCHANGED <<nIncr, inbox, delivered>>

\* execute(Increment {}).
Increment ==
    /\ nIncr < MaxIncrements
    /\ nIncr' = nIncr + 1
    /\ \E sender \in Addrs, out \in try_increment(STATE_item) :
         /\ STATE_item' = out.state
         /\ Invoke("execute", [sender |-> sender], [tag |-> "Increment"], out.res)
         /\ Dispatch(out.res)
    /\ UNCHANGED <<contract_info, inbox, delivered>>

\* query(GetCount {}).
Query ==
    /\ STATE_item' = storage_after_query(STATE_item)
    /\ Invoke("query", None, [tag |-> "GetCount"], query_count(STATE_item))
    /\ Dispatch(query_count(STATE_item))
    /\ UNCHANGED <<contract_info, nIncr, inbox, delivered>>

\* execute(DeploySlave {count}).
DeploySlave ==
    /\ issued < MaxRequests
    /\ \E sender \in Addrs, count \in ChildCounts :
         LET env == [contract |-> [address |-> ContractAddr]]
             info == [sender |-> sender]
             res == deploy_slave(env, info, count)
         IN  /\ STATE_item' = storage_after_deploy_slave(STATE_item)
             /\ Invoke("execute", info, [tag |-> "DeploySlave", count |-> count], res)
             /\ Dispatch(res)
    /\ UNCHANGED <<contract_info, nIncr, inbox, delivered>>

\* The host runs a pending submessage and builds the reply, if one is wanted.
HostExecute ==
    /\ \E p \in pending, result \in HostOutcomes :
         /\ pending' = pending \ {p}
         /\ inbox' = IF WantsReply(p.submsg.reply_on, result)
                     THEN inbox \cup {[req |-> p.req,
                                       reply |-> Reply(p.submsg.id, result)]}
                     ELSE inbox
    /\ UNCHANGED <<STATE_item, contract_info, call, before, nIncr, issued, delivered>>

\* The host calls reply with a reply it holds.
HostDeliver ==
    /\ \E m \in inbox :
         /\ inbox' = inbox \ {m}
         /\ delivered' = [delivered EXCEPT ![m.req] = @ + 1]
         /\ STATE_item' = storage_after_reply(STATE_item, m.reply)
         /\ Invoke("reply", None, m.reply, reply(m.reply))
         /\ Dispatch(reply(m.reply))
    /\ UNCHANGED <<contract_info, nIncr>>

Next ==
    \/ Instantiate
    \/ Increment
    \/ DeploySlave
    \/ Query
    \/ HostExecute
    \/ HostDeliver

Spec == Init /\ [][Next]_vars

\* The host does not stop while it holds a submessage or a reply.
FairSpec == Spec /\ WF_vars(HostExecute \/ HostDeliver)

(***************************************************************************)
(* The reply entry point on every reply message within the bounds: the     *)
(* contract is instantiated, one request is out, and its reply is due.     *)
(***************************************************************************)
InitReply ==
    /\ STATE_item \in {[count |-> 17, owner |-> "creator"]}
    /\ contract_info = [contract |-> CONTRACT_NAME, version |-> CONTRACT_VERSION]
    /\ call = NoCall
    /\ before = [STATE_item |-> STATE_item]
    /\ nIncr = 0
    /\ issued = 1
    /\ pending = {}
    /\ \E id \in ReplyIds, result \in Outcomes :
          inbox = {[req |-> 1, reply |-> Reply(id, result)]}
    /\ delivered = [r \in 1..MaxRequests |-> 0]

NextReply == HostDeliver

SpecReply == InitReply /\ [][NextReply]_vars

(***************************************************************************)
(* Properties.                                                             *)
(***************************************************************************)
IsExecute(tag) == call.entry = "execute" /\ call.msg.tag = tag

\* A reply to a creation request: the reserved id, the only id the contract
\* tags a submessage with.
IsCreationReply(tag) ==
    /\ call.entry = "reply"
    /\ call.msg.id = INSTANTIATE_REPLY_ID
    /\ call.msg.result.tag = tag

\* C1: instantiate with seed n followed immediately by GetCount returns
\* count = n: the query's data is the serialized {count: n}, and it decodes
\* to no other seed.
C1_InitThenGetCount ==
    [][ (call.entry = "instantiate" /\ call'.entry = "query") =>
          /\ call'.res = OkBinary(to_binary([count |-> call.msg.count]))
          /\ \A n \in Seeds :
                call'.res.data = to_binary([count |-> n]) => n = call.msg.count
      ]_vars

\* GetCount after instantiate {count: 17} and no execute: the test's case.
C1_Witness ==
    /\ call.entry = "query"
    /\ call.res = OkBinary("{\"count\":17}")
    /\ STATE_item = [count |-> 17, owner |-> "creator"]
    /\ before.STATE_item = STATE_item
    /\ nIncr = 0
    /\ issued = 0

\* C2: in every initialized state and for every caller, Increment succeeds
\* and the count is the previous count + 1 (so two Increments add 2).  The
\* count is an i32, so previous + 1 is a count only below I32_MAX.
C2_IncrementAddsOne ==
    (IsExecute("Increment") /\ before.STATE_item # None) =>
        /\ call.res.result = "Ok"
        /\ before.STATE_item.count < I32_MAX
        /\ STATE_item.count = before.STATE_item.count + 1
        /\ query_count(STATE_item) =
              OkBinary(to_binary([count |-> before.STATE_item.count + 1]))

\* C3: DeploySlave(count) returns exactly one submessage, tagged with the
\* reserved reply id, for the fixed code id, with this contract's address
\* (not the caller's) as admin and the serialized {count} as payload.
C3_CreateChildRequest ==
    IsExecute("DeploySlave") =>
        /\ call.res.result = "Ok"
        /\ Len(call.res.messages) = 1
        /\ LET sub == call.res.messages[1]
           IN  /\ sub.id = INSTANTIATE_REPLY_ID
               /\ sub.msg.code_id = CODE_ID
               /\ sub.msg.admin = ContractAddr
               /\ sub.msg.admin # call.info.sender
               /\ sub.msg.msg = to_binary([count |-> call.msg.count])
               /\ \A c \in ChildCounts :
                     sub.msg.msg = to_binary([count |-> c]) => c = call.msg.count

C3_Witness ==
    /\ IsExecute("DeploySlave")
    /\ call.info.sender = "creator"
    /\ call.msg.count = 5
    /\ Len(call.res.messages) = 1
    /\ call.res.messages[1].msg.msg = "{\"count\":5}"
    /\ call.res.messages[1].msg.admin = "cosmos2contract"

\* The requests the host still holds, not yet replied to.
InFlight == {p.req : p \in pending} \cup {m.req : m \in inbox}

C4_Safety ==
    /\ \A r \in 1..MaxRequests :
          /\ delivered[r] <= 1
          /\ r > issued => delivered[r] = 0 /\ r \notin InFlight
          /\ r <= issued => ((delivered[r] = 1) <=> (r \notin InFlight))
    /\ \A m \in inbox : m.reply.id = INSTANTIATE_REPLY_ID
    /\ call.entry = "reply" => call.msg.id = INSTANTIATE_REPLY_ID

\* C4: every request DeploySlave emits gets exactly one reply, with the
\* request's id, after the request, on success and on failure alike, and no
\* reply comes without a request; under a fair host every request issued is
\* eventually replied to.
C4_AlwaysReply ==
    /\ []C4_Safety
    /\ \A r \in 1..MaxRequests : (r <= issued) ~> (delivered[r] = 1)

C4_Witness ==
    /\ issued = 2
    /\ delivered[1] = 1
    /\ delivered[2] = 1
    /\ call.entry = "reply"
    /\ call.msg.result.tag = "Err"

\* The index of the first element of seq that satisfies P, 0 if none does.
FirstIndex(seq, P(_)) ==
    IF \E i \in 1..Len(seq) : P(seq[i])
    THEN CHOOSE i \in 1..Len(seq) : P(seq[i]) /\ \A j \in 1..(i - 1) : ~P(seq[j])
    ELSE 0
IsInstantiate(event) == event.ty = "instantiate"
IsAddress(attr) == attr.key = "_contract_address"

C6_FailureSurfaced ==
    IsCreationReply("Err") =>
        /\ call.res = generic_err("SubMsg error: " \o call.msg.result.err)
        /\ Submessages(call.res) = <<>>
        /\ pending = {}
        /\ STATE_item = before.STATE_item

C6_Witness ==
    /\ IsCreationReply("Err")
    /\ call.msg.result.err = "insufficient funds"
    /\ call.res.error.msg = "SubMsg error: insufficient funds"
    /\ STATE_item = [count |-> 17, owner |-> "creator"]

C9_CounterMonotonic ==
    (before.STATE_item # None /\ STATE_item # None) =>
        STATE_item.count >= before.STATE_item.count

\* C10: once instantiate has succeeded (it has stored the contract version),
\* the stored State is present in every state.
C10_RecordNeverAbsent ==
    contract_info # None => STATE_item # None

C10_Witness ==
    /\ contract_info # None
    /\ STATE_item # None
    /\ call.entry = "reply"
    /\ call.res.result = "Err"
    /\ nIncr = MaxIncrements

\* C11: GetCount never mutates state: after a query, failing or not, the
\* stored State is what it was before it, and the query emits no submessage.
C11_QueryReadOnly ==
    call.entry = "query" =>
        /\ STATE_item = before.STATE_item
        /\ Submessages(call.res) = <<>>
        /\ "messages" \notin DOMAIN call.res

\* A query that succeeds after an Increment, while a request is in flight.
C11_Witness ==
    /\ call.entry = "query"
    /\ call.res.result = "Ok"
    /\ nIncr > 0
    /\ pending # {}
    /\ STATE_item = before.STATE_item

\* A call that is not DeploySlave: instantiate, Increment or reply.
C12_NoRequestFromOthers ==
    /\ (call.entry \in {"instantiate", "reply"} \/ IsExecute("Increment")) =>
           Submessages(call.res) = <<>>
    /\ \A id \in ReplyIds, result \in HostOutcomes :
           Submessages(reply(Reply(id, result))) = <<>>

\* A step issues a request only if it is a DeploySlave call, and a request
\* that has been replied to is never in flight again.
C12_NoRetryStep ==
    /\ issued' # issued => (call'.entry = "execute" /\ call'.msg.tag = "DeploySlave")
    /\ \A r \in 1..MaxRequests :
          (r <= issued /\ r \notin InFlight) =>
              (r \notin InFlight' /\ delivered'[r] = delivered[r])

\* C12: a creation goes from requested to succeeded or failed and stays
\* there: only DeploySlave emits a request; instantiate, Increment and reply
\* in each of its branches (success, host failure, missing event, missing
\* attribute, unknown id) emit none, so a creation that has been replied to
\* is never requested again.
C12_LifecycleNoRetry ==
    /\ []C12_NoRequestFromOthers
    /\ [][C12_NoRetryStep]_vars

\* Two creations are over, the last one with a successful reply, and no
\* request is left.
C12_Witness ==
    /\ delivered[1] = 1
    /\ delivered[2] = 1
    /\ call.entry = "reply"
    /\ call.res.result = "Ok"
    /\ Submessages(call.res) = <<>>
    /\ InFlight = {}

\* The keys of the attributes of a response.
AttributeKeys(res) == {res.attributes[i].key : i \in 1..Len(res.attributes)}

\* The address a successful creation reply reports: the value of the first
\* "_contract_address" attribute of the first "instantiate" event.
ExtractedAddress(result) ==
    LET e == FirstIndex(result.events, IsInstantiate)
        a == FirstIndex(result.events[e].attributes, IsAddress)
    IN  result.events[e].attributes[a].value

\* A creation reply that succeeded, with two attributes keyed "method" and
\* key, the latter holding the extracted address.
TwoAttributesKeyed(key) ==
    (IsCreationReply("Ok") /\ call.res.result = "Ok") =>
        /\ Len(call.res.attributes) = 2
        /\ AttributeKeys(call.res) = {"method", key}
        /\ \E i \in 1..2 :
              call.res.attributes[i] =
                  Attr(key, ExtractedAddress(call.msg.result))

\* C13, as stated: the response of a successful creation reply carries
\* exactly two attributes, keyed "method" and "child_address", and
\* "child_address" holds the extracted child address.
C13_ChildAddressKey == TwoAttributesKeyed("child_address")

\* C13, amended: the response of a successful creation reply carries exactly
\* two attributes, keyed "method" and "contract_address", and
\* "contract_address" holds the extracted child address.
C13_ContractAddressKey == TwoAttributesKeyed("contract_address")

\* A successful creation reply whose address is not the last one listed.
C13_Witness ==
    /\ IsCreationReply("Ok")
    /\ call.res.result = "Ok"
    /\ call.msg.result.events =
          << Event("instantiate", <<Attr("code_id", "9552"),
                                    Attr("_contract_address", "addr456")>>),
             Event("instantiate", <<Attr("_contract_address", "addr123")>>) >>
    /\ call.res.attributes = <<Attr("method", "handle_instantiate_reply"),
                               Attr("contract_address", "addr456")>>

StartsWith(s, prefix) ==
    Len(s) >= Len(prefix) /\ SubSeq(s, 1, Len(prefix)) = prefix

\* The declared results a result of reply is an instance of.
ReplyKinds(res) ==
    {k \in {"success", "host failure", "missing event", "missing attribute",
            "unknown id"} :
        \/ /\ k = "success"
           /\ res.result = "Ok"
           /\ \E i \in 1..Len(res.attributes) :
                 res.attributes[i].key = "contract_address"
        \/ /\ k # "success"
           /\ res.result = "Err"
           /\ res.error.kind = "GenericErr"
           /\ \/ k = "host failure" /\ StartsWith(res.error.msg, "SubMsg error: ")
              \/ k = "missing event"
                    /\ res.error.msg = "Cannot find 'instantiate' event"
              \/ k = "missing attribute"
                    /\ res.error.msg = "Cannot find '_contract_address' attribute"
              \/ k = "unknown id" /\ StartsWith(res.error.msg, "Unknown reply id: ")}

\* The result of reply as a function of the reply message alone, stated on
\* positions in the event and attribute lists.
ExpectedReply(msg) ==
    IF msg.id # INSTANTIATE_REPLY_ID
    THEN generic_err("Unknown reply id: " \o to_string(msg.id))
    ELSE IF msg.result.tag = "Err"
    THEN generic_err("SubMsg error: " \o msg.result.err)
    ELSE IF FirstIndex(msg.result.events, IsInstantiate) = 0
    THEN generic_err("Cannot find 'instantiate' event")
    ELSE IF FirstIndex(msg.result.events[FirstIndex(msg.result.events,
                           IsInstantiate)].attributes, IsAddress) = 0
    THEN generic_err("Cannot find '_contract_address' attribute")
    ELSE OkResponse(<<Attr("method", "handle_instantiate_reply"),
                      Attr("contract_address", ExtractedAddress(msg.result))>>,
                    <<>>)

\* C14: for every reply id and every outcome (any events, any attributes,
\* duplicate or absent keys, empty lists) reply ends, without a panic, in
\* exactly one of the five declared results, and the result is the one the
\* reply message alone determines.
C14_TotalDeterministic ==
    call.entry = "reply" =>
        /\ call.res # Panicked
        /\ call.res.result \in {"Ok", "Err"}
        /\ Cardinality(ReplyKinds(call.res)) = 1
        /\ call.res = ExpectedReply(call.msg)

\* A creation reply whose instantiate event has an empty attribute list.
C14_Witness ==
    /\ IsCreationReply("Ok")
    /\ call.msg.result.events = <<Event("wasm", <<>>), Event("instantiate", <<>>)>>
    /\ ReplyKinds(call.res) = {"missing attribute"}

\* C15: at most one creation request is in flight at any time, so that the
\* fixed reply id names a single outstanding request.
C15_AtMostOneInFlight ==
    /\ Cardinality(InFlight) <= 1
    /\ \A m1 \in inbox : \A p \in pending :
          m1.reply.id = p.submsg.id => m1.req = p.req

\* C16: DeploySlave and reply, in every branch, leave the stored State as it
\* was before the call, and the result of reply is the one the reply message
\* alone determines, whatever the stored State and the calls before it.
C16_NoStateBetweenRequestAndReply ==
    /\ (IsExecute("DeploySlave") \/ call.entry = "reply") =>
           STATE_item = before.STATE_item
    /\ call.entry = "reply" =>
           call.res = ExpectedReply(call.msg)

\* A successful reply delivered to an instantiated contract whose counter
\* moved since the request.
C16_Witness ==
    /\ call.entry = "reply"
    /\ call.res.result = "Ok"
    /\ STATE_item # None
    /\ nIncr > 0
    /\ STATE_item.count # 17
    /\ STATE_item = before.STATE_item

\* C17: GetCount fails only when the State is absent: once instantiate has
\* succeeded every GetCount succeeds, with the stored count, and before it
\* GetCount and Increment both fail with NotFound.
C17_QueryFailsOnlyWhenAbsent ==
    /\ call.entry = "query" =>
          /\ call.res.result # "Ok" => before.STATE_item = None
          /\ contract_info # None =>
                /\ before.STATE_item # None
                /\ call.res = OkBinary(to_binary([count |-> before.STATE_item.count]))
          /\ before.STATE_item = None => call.res = not_found
    /\ (IsExecute("Increment") /\ before.STATE_item = None) =>
          call.res = not_found /\ STATE_item = None

\* A GetCount that fails with NotFound before instantiate, after an
\* Increment that failed too.
C17_Witness ==
    /\ call.entry = "query"
    /\ call.res = not_found
    /\ contract_info = None
    /\ STATE_item = None
    /\ nIncr > 0

\* A step in which an entry point returns a failure (an error or a trap)
\* leaves the stored State and the stored version as they were.
C18_FailureStep ==
    (call'.entry # "none" /\ call'.res.result # "Ok") =>
        /\ STATE_item' = STATE_item
        /\ contract_info' = contract_info

C19_UnknownReplyId ==
    (call.entry = "reply" /\ call.msg.id # INSTANTIATE_REPLY_ID) =>
        /\ call.res = generic_err("Unknown reply id: " \o to_string(call.msg.id))
        /\ ReplyKinds(call.res) = {"unknown id"}
        /\ call.res # handle_instantiate_reply(call.msg)
        /\ STATE_item = before.STATE_item
        /\ Submessages(call.res) = <<>>
        /\ pending = {}

\* A reply with id 2 whose outcome the handler would have accepted.
C19_Witness ==
    /\ call.entry = "reply"
    /\ call.msg.id = 2
    /\ call.msg.result =
          SubMsgOk(<<Event("instantiate", <<Attr("_contract_address", "addr123")>>)>>)
    /\ call.res.result = "Err"
    /\ call.res.error.msg = "Unknown reply id: 2"
====
